---- MODULE Spec2Model ----
(***************************************************************************)
(* A model of scraper/update_movies.py: the two fetch strategies            *)
(* (get_popular_movies, get_representative_movies), the aggregation         *)
(* (calculate_stats) and the batched upload (upload_to_firebase).           *)
(*                                                                          *)
(* Conventions.                                                             *)
(*  - A Python value that may be None is a sequence of length <= 1:         *)
(*    <<>> is None and <<n>> is the number n.                               *)
(*  - A string that the code transforms (a genre name, a document id) is a  *)
(*    sequence of one-character strings.                                    *)
(*  - Ratings and popularities are fixed-point: 75 stands for 7.5; the      *)
(*    rounded averages are in hundredths, 750 stands for 7.50.              *)
(*  - A raw API entry is a function whose DOMAIN is the set of keys the     *)
(*    JSON object carries, so an absent key is absent from the DOMAIN.      *)
(***************************************************************************)
EXTENDS Integers, Sequences, FiniteSets, TLC

\* ------------------------------------------------------------------ bounds
MaxPageLen == 2
MaxPages == 2
MaxMovies == 3
MaxTop == 2

\* ------------------------------------------------------- program constants
PageSize == 20
BatchSize == 500

VARIABLES
    pc,
    \* get_popular_movies / get_representative_movies
    mode, genre_map, pages, target_per_genre,
    processed_movies, seen_ids, duplicates_count, movies_collected,
    gi, page, movies_on_page,
    requests, served, processed,
    \* calculate_stats
    movies, top_count, genre_extended_stats,
    \* upload_to_firebase
    db, i, call, commits, first_db

fetchVars == <<mode, genre_map, pages, target_per_genre, processed_movies,
               seen_ids, duplicates_count, movies_collected, gi, page,
               movies_on_page, requests, served, processed>>

statsVars == <<movies, top_count, genre_extended_stats>>

pubVars == <<db, i, call, commits, first_db>>

vars == <<pc, fetchVars, statsVars, pubVars>>

\* ----------------------------------------------------------------- helpers
None == <<>>
Some(n) == <<n>>

Range(s) == {s[k] : k \in DOMAIN s}

Min(a, b) == IF a <= b THEN a ELSE b

\* dict.get(key, default)
PyGet(d, key, default) == IF key \in DOMAIN d THEN d[key] ELSE default

\* math.ceil(a / b) for b > 0
CeilDiv(a, b) == -((-a) \div b)

Other == <<"O", "t", "h", "e", "r">>
Action == <<"A", "c", "t", "i", "o", "n">>
Comedy == <<"C", "o", "m", "e", "d", "y">>

\* The genre maps fetch_genre_map can return: {} on a failed request, else
\* the id -> name pairs in the order the API lists them.
GenreMaps ==
    { <<>>,
      << [id |-> 28, name |-> Action] >>,
      << [id |-> 28, name |-> Action], [id |-> 35, name |-> Comedy] >> }

\* genre_map.get(gid, "Other")
GenreMapGet(gm, gid) ==
    IF \E k \in DOMAIN gm : gm[k].id = gid
    THEN gm[CHOOSE k \in DOMAIN gm : gm[k].id = gid].name
    ELSE Other

\* [genre_map.get(gid, "Other") for gid in m["genre_ids"]] if m["genre_ids"] else ["Other"]
GenreNames(m, gm) ==
    LET ids == PyGet(m, "genre_ids", <<>>)
    IN  IF ids # <<>>
        THEN [k \in DOMAIN ids |-> GenreMapGet(gm, ids[k])]
        ELSE <<Other>>

\* The dict appended to processed_movies for the raw entry m.
MakeItem(m, gm) ==
    [ id           |-> m.id,
      title        |-> m.title,
      rating       |-> m.vote_average,
      genres       |-> GenreNames(m, gm),
      poster_path  |-> PyGet(m, "poster_path", None),
      release_date |-> PyGet(m, "release_date", None),
      popularity   |-> PyGet(m, "popularity", None),
      vote_count   |-> PyGet(m, "vote_count", None) ]

\* ------------------------------------------------------ the remote catalog
\* What the API serves for a movie id.  The title is the place the entry was
\* served at (genre index, page, position), so that two occurrences of one id
\* in the responses are two different entries.
CatalogIds == {1, 2}

CatalogEntry(id, tag) ==
    CASE id = 1 ->
           [ id |-> id, title |-> tag, vote_average |-> 80,
             genre_ids |-> <<28, 35>>, popularity |-> Some(40),
             vote_count |-> Some(10) ]
      [] id = 2 ->
           [ id |-> id, title |-> tag, vote_average |-> 60,
             genre_ids |-> <<>>, popularity |-> Some(25) ]
      [] OTHER ->
           [ id |-> id, title |-> tag, vote_average |-> 70,
             genre_ids |-> <<28, 99>>, vote_count |-> Some(3) ]

ShortPages == UNION { [1..n -> CatalogIds] : n \in 0..MaxPageLen }
LongPage == [k \in 1..(PageSize + 1) |-> k]
ResultPages == ShortPages \cup {LongPage}

\* response.json().get("results", []) of the request for page p of genre g
Results(ids, g, p) == [k \in DOMAIN ids |-> CatalogEntry(ids[k], <<g, p, k>>)]

\* The state of the functions that are not running.
FetchIdle ==
    /\ mode = "none" /\ genre_map = <<>> /\ pages = 0 /\ target_per_genre = 0
    /\ processed_movies = <<>> /\ seen_ids = {} /\ duplicates_count = 0
    /\ movies_collected = <<>> /\ gi = 0 /\ page = 0 /\ movies_on_page = <<>>
    /\ requests = <<>> /\ served = <<>> /\ processed = <<>>

StatsIdle == movies = <<>> /\ top_count = 0 /\ genre_extended_stats = <<>>

PublishIdle ==
    /\ db = [movies |-> <<>>, genres |-> <<>>]
    /\ i = 0 /\ call = 0 /\ commits = <<>> /\ first_db = <<>>

\* ---------------------------------------------------------- fetch: shared
\* `if m["id"] in seen_ids`
IsDuplicateNever(m, seen) == FALSE
IsDuplicate(m, seen) == m.id \in seen

\* ---------------------------------------------------- get_popular_movies
UniformRequestOk ==
    /\ mode = "uniform" /\ pc = "request" /\ page <= pages
    /\ \E ids \in ResultPages :
         /\ movies_on_page' = Results(ids, 0, page)
         /\ requests' = Append(requests,
                               [genre |-> 0, page |-> page, status |-> 200,
                                count |-> Len(ids)])
         /\ served' = served \o Results(ids, 0, page)
    /\ pc' = "entries"
    /\ UNCHANGED <<mode, genre_map, pages, target_per_genre, processed_movies,
                   seen_ids, duplicates_count, movies_collected, gi, page,
                   processed>>
    /\ UNCHANGED <<statsVars, pubVars>>

UniformRequestFails ==
    /\ mode = "uniform" /\ pc = "request" /\ page <= pages
    /\ requests' = Append(requests,
                          [genre |-> 0, page |-> page, status |-> 500,
                           count |-> 0])
    /\ page' = page + 1
    /\ UNCHANGED <<pc, mode, genre_map, pages, target_per_genre,
                   processed_movies, seen_ids, duplicates_count,
                   movies_collected, gi, movies_on_page, served, processed>>
    /\ UNCHANGED <<statsVars, pubVars>>

UniformEntryDuplicate ==
    /\ mode = "uniform" /\ pc = "entries" /\ movies_on_page # <<>>
    /\ IsDuplicate(Head(movies_on_page), seen_ids)
    /\ duplicates_count' = duplicates_count + 1
    /\ movies_on_page' = Tail(movies_on_page)
    /\ processed' = Append(processed, Head(movies_on_page))
    /\ UNCHANGED <<pc, mode, genre_map, pages, target_per_genre,
                   processed_movies, seen_ids, movies_collected, gi, page,
                   requests, served>>
    /\ UNCHANGED <<statsVars, pubVars>>

UniformEntryNew ==
    /\ mode = "uniform" /\ pc = "entries" /\ movies_on_page # <<>>
    /\ ~IsDuplicate(Head(movies_on_page), seen_ids)
    /\ seen_ids' = seen_ids \cup {Head(movies_on_page).id}
    /\ processed_movies' =
           Append(processed_movies, MakeItem(Head(movies_on_page), genre_map))
    /\ movies_on_page' = Tail(movies_on_page)
    /\ processed' = Append(processed, Head(movies_on_page))
    /\ UNCHANGED <<pc, mode, genre_map, pages, target_per_genre,
                   duplicates_count, movies_collected, gi, page, requests,
                   served>>
    /\ UNCHANGED <<statsVars, pubVars>>

UniformPageEnd ==
    /\ mode = "uniform" /\ pc = "entries" /\ movies_on_page = <<>>
    /\ page' = page + 1
    /\ pc' = "request"
    /\ UNCHANGED <<mode, genre_map, pages, target_per_genre, processed_movies,
                   seen_ids, duplicates_count, movies_collected, gi,
                   movies_on_page, requests, served, processed>>
    /\ UNCHANGED <<statsVars, pubVars>>

UniformReturn ==
    /\ mode = "uniform" /\ pc = "request" /\ page > pages
    /\ pc' = "done"
    /\ UNCHANGED fetchVars
    /\ UNCHANGED <<statsVars, pubVars>>

\* ----------------------------------------------- get_representative_movies
\* pages_to_fetch = math.ceil(target_per_genre / 20)
PagesToFetch(target) == CeilDiv(target, PageSize)

\* `if movies_collected_for_this_genre >= target_per_genre: break`
QuotaReachedNever(collected, target) == FALSE
QuotaReached(collected, target) == collected >= target

\* `movies_collected_for_this_genre += 1` of the duplicate branch
CollectedAfterDuplicateSame(collected) == collected
CollectedAfterDuplicate(collected) == collected + 1

\* The genre the outer loop goes on with after a failed page request (`break`
\* leaves the page loop only).
GenreAfterFailureNone(g, gm) == Len(gm) + 1
GenreAfterFailure(g, gm) == g + 1

BalancedGenreStart ==
    /\ mode = "balanced" /\ pc = "genre" /\ gi <= Len(genre_map)
    /\ movies_collected' = [movies_collected EXCEPT ![gi] = 0]
    /\ page' = 1
    /\ pc' = "page"
    /\ UNCHANGED <<mode, genre_map, pages, target_per_genre, processed_movies,
                   seen_ids, duplicates_count, gi, movies_on_page, requests,
                   served, processed>>
    /\ UNCHANGED <<statsVars, pubVars>>

BalancedReturn ==
    /\ mode = "balanced" /\ pc = "genre" /\ gi > Len(genre_map)
    /\ pc' = "done"
    /\ UNCHANGED fetchVars
    /\ UNCHANGED <<statsVars, pubVars>>

\* The page loop ends: its range is exhausted, or the quota check at its top
\* breaks out of it.
BalancedPagesEnd ==
    /\ mode = "balanced" /\ pc = "page"
    /\ \/ page > PagesToFetch(target_per_genre)
       \/ QuotaReached(movies_collected[gi], target_per_genre)
    /\ gi' = gi + 1
    /\ pc' = "genre"
    /\ UNCHANGED <<mode, genre_map, pages, target_per_genre, processed_movies,
                   seen_ids, duplicates_count, movies_collected, page,
                   movies_on_page, requests, served, processed>>
    /\ UNCHANGED <<statsVars, pubVars>>

BalancedRequestOk ==
    /\ mode = "balanced" /\ pc = "page"
    /\ page <= PagesToFetch(target_per_genre)
    /\ ~QuotaReached(movies_collected[gi], target_per_genre)
    /\ \E ids \in ResultPages :
         /\ requests' = Append(requests,
                               [genre |-> gi, page |-> page, status |-> 200,
                                count |-> Len(ids)])
         /\ served' = served \o Results(ids, gi, page)
         /\ IF ids = <<>>
            THEN \* `if not movies_on_page: break`
                 /\ gi' = gi + 1
                 /\ pc' = "genre"
                 /\ UNCHANGED movies_on_page
            ELSE /\ movies_on_page' = Results(ids, gi, page)
                 /\ pc' = "entries"
                 /\ UNCHANGED gi
    /\ UNCHANGED <<mode, genre_map, pages, target_per_genre, processed_movies,
                   seen_ids, duplicates_count, movies_collected, page,
                   processed>>
    /\ UNCHANGED <<statsVars, pubVars>>

BalancedRequestFails ==
    /\ mode = "balanced" /\ pc = "page"
    /\ page <= PagesToFetch(target_per_genre)
    /\ ~QuotaReached(movies_collected[gi], target_per_genre)
    /\ requests' = Append(requests,
                          [genre |-> gi, page |-> page, status |-> 500,
                           count |-> 0])
    /\ gi' = GenreAfterFailure(gi, genre_map)
    /\ pc' = "genre"
    /\ UNCHANGED <<mode, genre_map, pages, target_per_genre, processed_movies,
                   seen_ids, duplicates_count, movies_collected, page,
                   movies_on_page, served, processed>>
    /\ UNCHANGED <<statsVars, pubVars>>

\* The quota check inside the page: the rest of the page is left unprocessed.
BalancedEntryBreak ==
    /\ mode = "balanced" /\ pc = "entries" /\ movies_on_page # <<>>
    /\ QuotaReached(movies_collected[gi], target_per_genre)
    /\ movies_on_page' = <<>>
    /\ page' = page + 1
    /\ pc' = "page"
    /\ UNCHANGED <<mode, genre_map, pages, target_per_genre, processed_movies,
                   seen_ids, duplicates_count, movies_collected, gi, requests,
                   served, processed>>
    /\ UNCHANGED <<statsVars, pubVars>>

BalancedEntryDuplicate ==
    /\ mode = "balanced" /\ pc = "entries" /\ movies_on_page # <<>>
    /\ ~QuotaReached(movies_collected[gi], target_per_genre)
    /\ IsDuplicate(Head(movies_on_page), seen_ids)
    /\ duplicates_count' = duplicates_count + 1
    /\ movies_collected' =
           [movies_collected EXCEPT
              ![gi] = CollectedAfterDuplicate(movies_collected[gi])]
    /\ movies_on_page' = Tail(movies_on_page)
    /\ processed' = Append(processed, Head(movies_on_page))
    /\ UNCHANGED <<pc, mode, genre_map, pages, target_per_genre,
                   processed_movies, seen_ids, gi, page, requests, served>>
    /\ UNCHANGED <<statsVars, pubVars>>

BalancedEntryNew ==
    /\ mode = "balanced" /\ pc = "entries" /\ movies_on_page # <<>>
    /\ ~QuotaReached(movies_collected[gi], target_per_genre)
    /\ ~IsDuplicate(Head(movies_on_page), seen_ids)
    /\ seen_ids' = seen_ids \cup {Head(movies_on_page).id}
    /\ movies_collected' =
           [movies_collected EXCEPT ![gi] = movies_collected[gi] + 1]
    /\ processed_movies' =
           Append(processed_movies, MakeItem(Head(movies_on_page), genre_map))
    /\ movies_on_page' = Tail(movies_on_page)
    /\ processed' = Append(processed, Head(movies_on_page))
    /\ UNCHANGED <<pc, mode, genre_map, pages, target_per_genre,
                   duplicates_count, gi, page, requests, served>>
    /\ UNCHANGED <<statsVars, pubVars>>

BalancedPageEnd ==
    /\ mode = "balanced" /\ pc = "entries" /\ movies_on_page = <<>>
    /\ page' = page + 1
    /\ pc' = "page"
    /\ UNCHANGED <<mode, genre_map, pages, target_per_genre, processed_movies,
                   seen_ids, duplicates_count, movies_collected, gi,
                   movies_on_page, requests, served, processed>>
    /\ UNCHANGED <<statsVars, pubVars>>

\* The targets the balanced fetch is called with: negative, zero, below and at
\* a page's length, and one more than a full page (two pages per genre).
Targets == {-(PageSize + 1), 0, 1, MaxPageLen, PageSize + 1}

InitFetch ==
    /\ mode \in {"uniform", "balanced"}
    /\ genre_map \in GenreMaps
    /\ IF mode = "uniform"
       THEN /\ pages \in 0..MaxPages
            /\ target_per_genre = 0
            /\ pc = "request"
            /\ gi = 0
            /\ page = 1
       ELSE /\ pages = 0
            /\ target_per_genre \in Targets
            /\ pc = "genre"
            /\ gi = 1
            /\ page = 0
    /\ processed_movies = <<>>
    /\ seen_ids = {}
    /\ duplicates_count = 0
    /\ movies_collected = [g \in DOMAIN genre_map |-> 0]
    /\ movies_on_page = <<>>
    /\ requests = <<>>
    /\ served = <<>>
    /\ processed = <<>>
    /\ StatsIdle
    /\ PublishIdle

NextFetch ==
    \/ UniformRequestOk
    \/ UniformRequestFails
    \/ UniformEntryDuplicate
    \/ UniformEntryNew
    \/ UniformPageEnd
    \/ UniformReturn
    \/ BalancedGenreStart
    \/ BalancedReturn
    \/ BalancedPagesEnd
    \/ BalancedRequestOk
    \/ BalancedRequestFails
    \/ BalancedEntryBreak
    \/ BalancedEntryDuplicate
    \/ BalancedEntryNew
    \/ BalancedPageEnd

SpecFetch == InitFetch /\ [][NextFetch]_vars

\* ------------------------------------------------------ claims on the fetch
Last(s) == s[Len(s)]

RECURSIVE SumSeq(_)
SumSeq(s) == IF s = <<>> THEN 0 ELSE Head(s) + SumSeq(Tail(s))

IsPrefix(s, t) == Len(s) <= Len(t) /\ SubSeq(t, 1, Len(s)) = s

\* The first entry of the sequence of raw entries that carries the id.
FirstWithId(entries, id) ==
    entries[CHOOSE k \in DOMAIN entries :
              /\ entries[k].id = id
              /\ \A j \in 1..(k - 1) : entries[j].id # id]

RequestsOf(g) == SelectSeq(requests, LAMBDA r : r.genre = g)

NoTwoItemsShareAnId ==
    \A k, l \in DOMAIN processed_movies :
        processed_movies[k].id = processed_movies[l].id => k = l

\* C1 as stated: at every point of either fetch the retained items have
\* pairwise distinct ids, seen_ids has as many elements as there are retained
\* items, and every retained item is built from the first entry with its id
\* among all entries the responses carried so far, in request order.
C1_FirstServedOccurrenceWins ==
    /\ NoTwoItemsShareAnId
    /\ Cardinality(seen_ids) = Len(processed_movies)
    /\ \A k \in DOMAIN processed_movies :
          /\ \E e \in Range(served) : e.id = processed_movies[k].id
          /\ processed_movies[k] =
                 MakeItem(FirstWithId(served, processed_movies[k].id), genre_map)

\* C1 amended: as above, with "first occurrence" taken among the entries that
\* reached the duplicate check; the entries of a page that follow the point
\* where the genre's quota is reached are never looked at, so an id first met
\* there is neither retained nor counted, and may be retained from a later
\* response.
C1_FirstProcessedOccurrenceWins ==
    /\ NoTwoItemsShareAnId
    /\ Cardinality(seen_ids) = Len(processed_movies)
    /\ seen_ids = {processed_movies[k].id : k \in DOMAIN processed_movies}
    /\ \A k \in DOMAIN processed_movies :
          /\ \E e \in Range(processed) : e.id = processed_movies[k].id
          /\ processed_movies[k] =
                 MakeItem(FirstWithId(processed, processed_movies[k].id),
                          genre_map)
    /\ mode = "uniform" /\ pc \in {"request", "done"} => processed = served

\* A balanced run in which an id was served past the quota of the first genre
\* and retained from the second genre's page, and another id was met twice.
C1_Witness ==
    /\ mode = "balanced" /\ pc = "done"
    /\ duplicates_count > 0
    /\ Len(processed_movies) >= 2
    /\ \E k \in DOMAIN processed_movies :
          processed_movies[k] #
              MakeItem(FirstWithId(served, processed_movies[k].id), genre_map)

\* C2: in the balanced fetch the per-genre collected counts always add up to
\* the retained items plus duplicates_count, and every processed entry whose
\* id is already seen adds one to duplicates_count and one to the current
\* genre's count, and appends nothing.
C2_DuplicatesCountTowardQuota ==
    /\ [](mode = "balanced" =>
            SumSeq(movies_collected) = Len(processed_movies) + duplicates_count)
    /\ [][ (mode = "balanced" /\ processed' # processed) =>
             IF Last(processed').id \in seen_ids
             THEN /\ duplicates_count' = duplicates_count + 1
                  /\ movies_collected' =
                       [movies_collected EXCEPT ![gi] = movies_collected[gi] + 1]
                  /\ processed_movies' = processed_movies
                  /\ seen_ids' = seen_ids
             ELSE /\ duplicates_count' = duplicates_count
                  /\ movies_collected' =
                       [movies_collected EXCEPT ![gi] = movies_collected[gi] + 1]
                  /\ Len(processed_movies') = Len(processed_movies) + 1
                  /\ Last(processed_movies').id = Last(processed').id ]_vars

\* An id retained while the first genre was processed and met once more while
\* the second was: one item, one duplicate, one unit of each genre's quota.
C2_Witness ==
    /\ mode = "balanced" /\ pc = "done"
    /\ Len(genre_map) = 2
    /\ Len(processed_movies) = 1
    /\ duplicates_count = 1
    /\ movies_collected = <<1, 1>>
    /\ Len(processed) = 2
    /\ processed[1].title[1] = 1 /\ processed[2].title[1] = 2

\* C6: a non-success response changes no retained item and ends nothing but
\* (balanced) the current genre's pagination: the uniform fetch goes on with
\* the next page and has requested every page 1..pages when it returns, the
\* balanced fetch goes on with the next genre and has requested page 1 of
\* every genre when it returns; retained items are never removed and no
\* (genre, page) is requested twice.
C6_FailedPageIsSkipped ==
    /\ [][ (requests' # requests /\ Last(requests').status # 200) =>
             /\ processed_movies' = processed_movies
             /\ seen_ids' = seen_ids
             /\ IF mode = "uniform"
                THEN page' = page + 1 /\ pc' = "request"
                ELSE gi' = gi + 1 /\ pc' = "genre" ]_vars
    /\ [][IsPrefix(processed_movies, processed_movies')]_vars
    /\ [](\A k, l \in DOMAIN requests :
             (requests[k].genre = requests[l].genre
                /\ requests[k].page = requests[l].page) => k = l)
    /\ [](pc = "done" /\ mode = "uniform" =>
             /\ Len(requests) = pages
             /\ \A k \in DOMAIN requests : requests[k].page = k)
    /\ [](pc = "done" /\ mode = "balanced" /\ target_per_genre > 0 =>
             \A g \in DOMAIN genre_map :
                 \E k \in DOMAIN requests :
                     requests[k].genre = g /\ requests[k].page = 1)

\* A balanced run whose first genre retained an item from page 1 and failed on
\* page 2, after which the second genre was still requested and served.
C6_Witness ==
    /\ mode = "balanced" /\ pc = "done"
    /\ Len(requests) >= 3
    /\ requests[1].status = 200 /\ requests[1].genre = 1
    /\ requests[2].status # 200 /\ requests[2].genre = 1
    /\ requests[3].status = 200 /\ requests[3].genre = 2
    /\ Len(processed_movies) >= 2
    /\ processed_movies[1].title[1] = 1
    /\ Last(processed_movies).title[1] = 2

\* C9: in the balanced fetch the requests of a genre are pages 1, 2, ... in
\* order, each within ceil(target / 20), each issued only while the genre's
\* count is below the target and the previous page of the genre was served
\* non-empty; an entry is processed only while the count is below the target;
\* the count never exceeds a target >= 0, and for a target <= 0 nothing is
\* requested.
C9_PagesInOrderWithinQuota ==
    /\ [][ (mode = "balanced" /\ requests' # requests) =>
             LET r == Last(requests')
                 prev == RequestsOf(r.genre)
             IN  /\ requests' = Append(requests, r)
                 /\ r.genre = gi
                 /\ \A k \in DOMAIN requests : requests[k].genre <= r.genre
                 /\ r.page = Len(prev) + 1
                 /\ (r.page - 1) * PageSize < target_per_genre
                 /\ movies_collected[r.genre] < target_per_genre
                 /\ prev # <<>> =>
                        Last(prev).status = 200 /\ Last(prev).count > 0 ]_vars
    /\ [][ (mode = "balanced" /\ processed' # processed) =>
             /\ movies_collected[gi] < target_per_genre
             /\ Last(requests).genre = gi
             /\ Last(requests).count > 0 ]_vars
    /\ [](mode = "balanced" /\ target_per_genre >= 0 =>
             \A g \in DOMAIN movies_collected :
                 movies_collected[g] <= target_per_genre)
    /\ [](mode = "balanced" /\ target_per_genre <= 0 =>
             requests = <<>> /\ processed = <<>>)

\* A balanced run with two pages per genre in which one genre was requested
\* twice and the other reached its quota on its first page.
C9_Witness ==
    /\ mode = "balanced" /\ pc = "done"
    /\ target_per_genre = PageSize + 1
    /\ \E g \in DOMAIN genre_map : Len(RequestsOf(g)) = 2
    /\ \E g \in DOMAIN genre_map :
          /\ Len(RequestsOf(g)) = 1
          /\ movies_collected[g] = target_per_genre

\* ---------------------------------------------------------- calculate_stats
Max(a, b) == IF a >= b THEN a ELSE b

\* s[:n]
PySliceTo(s, n) ==
    IF n >= 0
    THEN SubSeq(s, 1, Min(n, Len(s)))
    ELSE SubSeq(s, 1, Max(Len(s) + n, 0))

\* `m.get("vote_count", 0) > 0` with the value None: TypeError
ComparisonRaises(m) == PyGet(m, "vote_count", Some(0)) = None

\* `m.get("vote_count", 0) > 0 and m.get("rating", 0) > 0`
QualifiesAlsoUnrated(m) ==
    PyGet(m, "vote_count", Some(0))[1] > 0 /\ PyGet(m, "rating", 0) >= 0
Qualifies(m) ==
    PyGet(m, "vote_count", Some(0))[1] > 0 /\ PyGet(m, "rating", 0) > 0

\* stats[genre].append(m); a defaultdict keeps the genres in the order of
\* their first append.
AppendToGroup(groups, genre, m) ==
    IF \E k \in DOMAIN groups : groups[k].genre = genre
    THEN LET k == CHOOSE l \in DOMAIN groups : groups[l].genre = genre
         IN  [groups EXCEPT ![k].movies = Append(@, m)]
    ELSE Append(groups, [genre |-> genre, movies |-> <<m>>])

\* `for genre in m["genres"]: stats[genre].append(m)`
RECURSIVE AppendToGroups(_, _, _)
AppendToGroups(groups, genres, m) ==
    IF genres = <<>>
    THEN groups
    ELSE AppendToGroups(AppendToGroup(groups, Head(genres), m), Tail(genres), m)

\* The first loop of calculate_stats, started with the groups given.
RECURSIVE GroupByGenre(_, _)
GroupByGenre(ms, groups) ==
    IF ms = <<>>
    THEN groups
    ELSE GroupByGenre(Tail(ms),
                      IF Qualifies(Head(ms))
                      THEN AppendToGroups(groups, Head(ms).genres, Head(ms))
                      ELSE groups)

\* `sum(m.get("popularity", 0) for m in genre_movies)` with a None: TypeError
SumRaises(genre_movies) ==
    \E k \in DOMAIN genre_movies :
        PyGet(genre_movies[k], "popularity", Some(0)) = None

RECURSIVE SumOf(_, _)
SumOf(genre_movies, key) ==
    IF genre_movies = <<>>
    THEN 0
    ELSE PyGet(Head(genre_movies), key, Some(0))[1]
             + SumOf(Tail(genre_movies), key)

RECURSIVE SumOfRatings(_)
SumOfRatings(genre_movies) ==
    IF genre_movies = <<>>
    THEN 0
    ELSE Head(genre_movies).rating + SumOfRatings(Tail(genre_movies))

\* round(num / den, 2) in hundredths, num being in hundredths as well.  The
\* quotient is a binary float, so which way an exact half goes depends on its
\* representation: `up` is that outcome.
Round2(num, den, up) ==
    LET q == num \div den
        r == num % den
    IN  IF 2 * r > den \/ (2 * r = den /\ up) THEN q + 1 ELSE q

\* One step of a stable descending sort: x goes behind every element whose
\* rating is not below its own.
InsertByRatingBeforeEqual(sorted, x) ==
    LET before == SelectSeq(sorted, LAMBDA y : y.rating > x.rating)
        after == SelectSeq(sorted, LAMBDA y : y.rating <= x.rating)
    IN  before \o <<x>> \o after
InsertByRating(sorted, x) ==
    LET before == SelectSeq(sorted, LAMBDA y : y.rating >= x.rating)
        after == SelectSeq(sorted, LAMBDA y : y.rating < x.rating)
    IN  before \o <<x>> \o after

\* sorted(genre_movies, key=lambda x: x["rating"], reverse=True)
RECURSIVE SortedByRating(_, _)
SortedByRating(genre_movies, sorted) ==
    IF genre_movies = <<>>
    THEN sorted
    ELSE SortedByRating(Tail(genre_movies),
                        InsertByRating(sorted, Head(genre_movies)))

\* The dict appended to genre_extended_stats for one group.
GenreStats(group, top, ratingUp, popularityUp) ==
    LET genre_movies == group.movies
        movie_count == Len(genre_movies)
    IN  [ genre_name         |-> group.genre,
          average_rating     |->
              Round2(SumOfRatings(genre_movies) * 10, movie_count, ratingUp),
          average_popularity |->
              Round2(SumOf(genre_movies, "popularity") * 10, movie_count,
                     popularityUp),
          total_votes        |-> SumOf(genre_movies, "vote_count"),
          movie_count        |-> movie_count,
          top_movies         |->
              PySliceTo(SortedByRating(genre_movies, <<>>), top) ]

\* The filter raises at the first item whose vote_count is None; else the
\* averaging raises at the first group that holds a popularity of None.
CalculateStatsRaises(ms) ==
    IF \E k \in DOMAIN ms : ComparisonRaises(ms[k])
    THEN TRUE
    ELSE \E k \in DOMAIN GroupByGenre(ms, <<>>) :
             SumRaises(GroupByGenre(ms, <<>>)[k].movies)

\* calculate_stats returns.
CalculateStatsReturns ==
    /\ pc = "calculate_stats"
    /\ ~CalculateStatsRaises(movies)
    /\ LET groups == GroupByGenre(movies, <<>>)
       IN  \E ratingUp, popularityUp \in [DOMAIN groups -> BOOLEAN] :
               genre_extended_stats' =
                   [k \in DOMAIN groups |->
                      GenreStats(groups[k], top_count, ratingUp[k],
                                 popularityUp[k])]
    /\ pc' = "returned"
    /\ UNCHANGED <<movies, top_count, fetchVars, pubVars>>

\* calculate_stats ends with a TypeError.
CalculateStatsTypeError ==
    /\ pc = "calculate_stats"
    /\ CalculateStatsRaises(movies)
    /\ pc' = "TypeError"
    /\ UNCHANGED <<statsVars, fetchVars, pubVars>>

\* The raw entries the item lists are fetched from: rated and unrated ones,
\* with and without vote_count and popularity, of one genre, of two, of none
\* and of genres that genre_map does not know.
EntryKinds ==
    { [vote_average |-> 80, genre_ids |-> <<28>>,
       vote_count |-> Some(10), popularity |-> Some(40)],
      [vote_average |-> 60, genre_ids |-> <<28, 35>>,
       vote_count |-> Some(5), popularity |-> Some(25)],
      [vote_average |-> 0, genre_ids |-> <<28>>,
       vote_count |-> Some(0), popularity |-> Some(10)],
      [vote_average |-> 80, genre_ids |-> <<35>>,
       vote_count |-> Some(0), popularity |-> Some(10)],
      [vote_average |-> 0, genre_ids |-> <<28>>,
       vote_count |-> Some(7), popularity |-> Some(10)],
      [vote_average |-> 80, genre_ids |-> <<28>>,
       popularity |-> Some(30)],
      [vote_average |-> 80, genre_ids |-> <<>>,
       vote_count |-> Some(3)],
      [vote_average |-> 71, genre_ids |-> <<98, 99>>,
       vote_count |-> Some(2), popularity |-> Some(30)] }

FullGenreMap ==
    << [id |-> 28, name |-> Action], [id |-> 35, name |-> Comedy] >>

\* The item list a fetch returns for the entries of the kinds given: the k-th
\* retained entry has id k.
FetchedItems(kinds) ==
    [k \in DOMAIN kinds |->
       MakeItem([key \in DOMAIN kinds[k] \cup {"id", "title"} |->
                   IF key = "id" THEN k
                   ELSE IF key = "title" THEN <<k>>
                   ELSE kinds[k][key]],
                FullGenreMap)]

ItemLists(n) == { FetchedItems(kinds) : kinds \in UNION { [1..l -> EntryKinds] : l \in 0..n } }

InitStats ==
    /\ pc = "calculate_stats"
    /\ movies \in ItemLists(MaxMovies)
    /\ top_count \in 0..MaxTop
    /\ genre_extended_stats = <<>>
    /\ FetchIdle
    /\ PublishIdle

NextStats ==
    \/ CalculateStatsReturns
    \/ CalculateStatsTypeError

SpecStats == InitStats /\ [][NextStats]_vars

\* ------------------------------------------------- claims on calculate_stats
\* An item the aggregation has to leave out: no votes or no rating.
IsUnrated(m) ==
    \/ m.vote_count = None
    \/ m.vote_count # None /\ m.vote_count[1] <= 0
    \/ m.rating <= 0

\* The places <<k, j>> where a rated item k of the input names the genre as
\* its j-th genre.
RatedOccurrences(genre) ==
    { o \in (DOMAIN movies)
               \X UNION { DOMAIN movies[k].genres : k \in DOMAIN movies } :
        /\ ~IsUnrated(movies[o[1]])
        /\ o[2] \in DOMAIN movies[o[1]].genres
        /\ movies[o[1]].genres[o[2]] = genre }

RECURSIVE SumOver(_, _)
SumOver(S, f) ==
    IF S = {}
    THEN 0
    ELSE LET x == CHOOSE y \in S : TRUE
         IN  f[x] + SumOver(S \ {x}, f)

StatsOf(genre) ==
    { k \in DOMAIN genre_extended_stats :
        genre_extended_stats[k].genre_name = genre }

AllGenreNames == UNION { Range(movies[k].genres) : k \in DOMAIN movies }

\* C3: when calculate_stats returns, no emitted record rests on an unrated
\* item: its top_movies hold rated items only, its movie_count and total_votes
\* are those of the rated occurrences of its genre, its averages are the
\* rounded means over them, and a genre is emitted (once) exactly when it has a
\* rated occurrence.
C3_UnratedItemsAreLeftOut ==
    pc = "returned" =>
      /\ \A k \in DOMAIN genre_extended_stats :
           LET s == genre_extended_stats[k]
               occ == RatedOccurrences(s.genre_name)
               votes == [o \in occ |-> movies[o[1]].vote_count[1]]
               rating == [o \in occ |-> movies[o[1]].rating]
               popularity ==
                   [o \in occ |->
                      IF movies[o[1]].popularity = None
                      THEN 0 ELSE movies[o[1]].popularity[1]]
           IN  /\ occ # {}
               /\ s.movie_count = Cardinality(occ)
               /\ s.total_votes = SumOver(occ, votes)
               /\ 2 * (s.average_rating * Cardinality(occ)
                         - 10 * SumOver(occ, rating)) \in
                      (-Cardinality(occ))..Cardinality(occ)
               /\ 2 * (s.average_popularity * Cardinality(occ)
                         - 10 * SumOver(occ, popularity)) \in
                      (-Cardinality(occ))..Cardinality(occ)
               /\ \A j \in DOMAIN s.top_movies :
                      /\ ~IsUnrated(s.top_movies[j])
                      /\ s.top_movies[j] \in Range(movies)
      /\ \A genre \in AllGenreNames :
           Cardinality(StatsOf(genre)) =
               IF RatedOccurrences(genre) = {} THEN 0 ELSE 1

\* A returned call whose input holds an item without votes, one without a
\* rating and a rated one, and whose only genre of unrated items is absent.
C3_Witness ==
    /\ pc = "returned"
    /\ \E k \in DOMAIN movies :
          movies[k].vote_count = Some(0) /\ movies[k].rating > 0
             /\ StatsOf(movies[k].genres[1]) = {}
    /\ \E k \in DOMAIN movies :
          movies[k].vote_count # None /\ movies[k].vote_count[1] > 0
             /\ movies[k].rating = 0
    /\ Len(genre_extended_stats) > 0

\* C4: when calculate_stats returns (top_count >= 0), every record's
\* top_movies has min(top_count, movie_count) elements, each an item of the
\* record's genre; ratings do not increase along it, items of equal rating
\* keep their order of collection, and no item of the genre left out of it is
\* rated above its last element or, at an equal rating, collected before it.
C4_TopMoviesStableDescending ==
    pc = "returned" =>
      \A k \in DOMAIN genre_extended_stats :
        LET s == genre_extended_stats[k]
            top == s.top_movies
            \* ids are the positions of collection
            before(a, b) ==
                a.rating > b.rating \/ (a.rating = b.rating /\ a.id <= b.id)
        IN  /\ Len(top) = Min(top_count, s.movie_count)
            /\ \A j \in DOMAIN top :
                  /\ top[j] \in Range(movies)
                  /\ s.genre_name \in Range(top[j].genres)
                  /\ ~IsUnrated(top[j])
            /\ \A j, l \in DOMAIN top : j < l => before(top[j], top[l])
            /\ \A o \in RatedOccurrences(s.genre_name) :
                  \/ \E j \in DOMAIN top : top[j] = movies[o[1]]
                  \/ Len(top) = top_count
                       /\ \A j \in DOMAIN top : before(top[j], movies[o[1]])

\* A truncated ranking with a tie: three rated items of one genre, the last
\* two rated alike and above the first, top_count = 2.
C4_Witness ==
    /\ pc = "returned"
    /\ top_count = 2
    /\ \E k \in DOMAIN genre_extended_stats :
          LET s == genre_extended_stats[k]
          IN  /\ s.movie_count = 3
              /\ Len(s.top_movies) = 2
              /\ s.top_movies[1].rating = s.top_movies[2].rating
              /\ s.top_movies[1].id = 2 /\ s.top_movies[2].id = 3
              /\ movies[1].rating < movies[2].rating

\* C5 as stated: calculate_stats never raises on a fetched item list; an item
\* whose vote_count is missing is skipped and a missing popularity counts 0.
C5_MissingFieldsCountAsZero ==
    /\ pc # "TypeError"
    /\ pc = "returned" =>
         \A k \in DOMAIN movies :
             movies[k].vote_count = None =>
                 \A l \in DOMAIN genre_extended_stats :
                     movies[k] \notin Range(genre_extended_stats[l].top_movies)

\* C10 as stated: the movie_count of every emitted record is the number of
\* distinct rated items of the input that carry the record's genre.
C10_ItemCountedOncePerGenre ==
    pc = "returned" =>
      \A k \in DOMAIN genre_extended_stats :
        genre_extended_stats[k].movie_count =
            Cardinality({ l \in DOMAIN movies :
                            /\ ~IsUnrated(movies[l])
                            /\ genre_extended_stats[k].genre_name
                                   \in Range(movies[l].genres) })

\* ------------------------------------------------------- upload_to_firebase
Digits == <<"0", "1", "2", "3", "4", "5", "6", "7", "8", "9">>

\* str(n) of an integer
RECURSIVE Str(_)
Str(n) ==
    IF n < 0 THEN <<"-">> \o Str(-n)
    ELSE IF n < 10 THEN <<Digits[n + 1]>>
    ELSE Str(n \div 10) \o <<Digits[(n % 10) + 1]>>

UpperCase == <<"A", "B", "C", "D", "E", "F", "G", "H", "I", "J", "K", "L", "M",
               "N", "O", "P", "Q", "R", "S", "T", "U", "V", "W", "X", "Y", "Z">>
LowerCase == <<"a", "b", "c", "d", "e", "f", "g", "h", "i", "j", "k", "l", "m",
               "n", "o", "p", "q", "r", "s", "t", "u", "v", "w", "x", "y", "z">>

\* str.lower()
Lower(s) ==
    [k \in DOMAIN s |->
       IF \E l \in DOMAIN UpperCase : UpperCase[l] = s[k]
       THEN LowerCase[CHOOSE l \in DOMAIN UpperCase : UpperCase[l] = s[k]]
       ELSE s[k]]

\* What batch.set(ref, doc) leaves under ref, `old` being the document it
\* finds there (<<>> when there is none): doc, whatever old is.
SetDocMerged(old, doc) ==
    [f \in DOMAIN old \cup DOMAIN doc |->
       IF f \in DOMAIN doc THEN doc[f] ELSE old[f]]
SetDoc(old, doc) == doc

\* batch.set(db.collection("movies").document(str(movie["id"])), movie)
MovieWrite(movie) == [key |-> Str(movie.id), doc |-> movie]

\* batch.set(db.collection("genres").document(s["genre_name"].lower()), s)
GenreWrite(s) == [key |-> Lower(s.genre_name), doc |-> s]

RECURSIVE SetDocs(_, _)
SetDocs(old, writes) ==
    IF writes = <<>>
    THEN old
    ELSE SetDocs(SetDoc(old, Head(writes).doc), Tail(writes))

\* batch.commit(): the writes of the batch take effect together, those to one
\* document in the order they were added.
Commit(coll, writes) ==
    LET keys == {writes[k].key : k \in DOMAIN writes}
    IN  [key \in DOMAIN coll \cup keys |->
           IF key \in keys
           THEN SetDocs(IF key \in DOMAIN coll THEN coll[key] ELSE <<>>,
                        SelectSeq(writes, LAMBDA w : w.key = key))
           ELSE coll[key]]

\* movies[i : i + batch_size]
Chunk(ms, start) == SubSeq(ms, start + 1, Min(start + BatchSize, Len(ms)))

\* One pass of the movies loop: the batch is filled and committed.
CommitMoviesBatch ==
    /\ pc = "upload_movies" /\ i < Len(movies)
    /\ db' = [db EXCEPT
                 !.movies =
                     Commit(@, [k \in DOMAIN Chunk(movies, i) |->
                                  MovieWrite(Chunk(movies, i)[k])])]
    /\ commits' = Append(commits,
                         [collection |-> "movies", call |-> call,
                          writes |-> Len(Chunk(movies, i))])
    /\ i' = i + BatchSize
    /\ UNCHANGED <<pc, call, first_db, statsVars, fetchVars>>

\* batch.commit() raises: the batch is not written and the call ends.
CommitMoviesBatchRaises ==
    /\ pc = "upload_movies" /\ i < Len(movies)
    /\ pc' = "raised"
    /\ UNCHANGED <<pubVars, statsVars, fetchVars>>

MoviesUploaded ==
    /\ pc = "upload_movies" /\ i >= Len(movies)
    /\ pc' = "upload_genres"
    /\ UNCHANGED <<pubVars, statsVars, fetchVars>>

\* The one batch of the genre statistics.
CommitGenresBatch ==
    /\ pc = "upload_genres"
    /\ db' = [db EXCEPT
                 !.genres =
                     Commit(@, [k \in DOMAIN genre_extended_stats |->
                                  GenreWrite(genre_extended_stats[k])])]
    /\ commits' = Append(commits,
                         [collection |-> "genres", call |-> call,
                          writes |-> Len(genre_extended_stats)])
    /\ first_db' = IF call = 1 THEN db' ELSE first_db
    /\ pc' = "uploaded"
    /\ UNCHANGED <<i, call, statsVars, fetchVars>>

CommitGenresBatchRaises ==
    /\ pc = "upload_genres"
    /\ pc' = "raised"
    /\ UNCHANGED <<pubVars, statsVars, fetchVars>>

\* upload_to_firebase is called once more with the same movies and stats.
UploadAgain ==
    /\ pc = "uploaded" /\ call = 1
    /\ call' = 2
    /\ i' = 0
    /\ pc' = "upload_movies"
    /\ UNCHANGED <<db, commits, first_db, statsVars, fetchVars>>

\* What the store holds before the upload: nothing, or documents of an
\* earlier run, some under keys this run writes and some not.
StaleMovie == [id |-> 1, title |-> <<0>>, rating |-> 10, stale |-> TRUE]
StaleGenre == [genre_name |-> Action, movie_count |-> 99, stale |-> TRUE]

InitialStores ==
    { [movies |-> <<>>, genres |-> <<>>],
      [movies |-> (Str(1) :> StaleMovie) @@ (Str(999) :> StaleMovie),
       genres |-> (Lower(Action) :> StaleGenre)
                     @@ (<<"w", "a", "r">> :> StaleGenre)] }

\* What calculate_stats returns for the default top_count, every exact half
\* rounded down.
DefaultTopCount == 10

StatsFor(ms) ==
    LET groups == GroupByGenre(ms, <<>>)
    IN  [k \in DOMAIN groups |->
           GenreStats(groups[k], DefaultTopCount, FALSE, FALSE)]

\* Inputs that need more than one batch: n movies and g genre records.
ManyMovies(n) ==
    FetchedItems([k \in 1..n |->
                    [vote_average |-> 80, genre_ids |-> <<28>>,
                     vote_count |-> Some(10), popularity |-> Some(40)]])

ManyStats(g) ==
    [k \in 1..g |->
       [ genre_name |-> <<"G">> \o Str(k), average_rating |-> 800,
         average_popularity |-> 400, total_votes |-> 10, movie_count |-> 1,
         top_movies |-> <<>> ]]

\* Two genre records whose names differ in case only.
CaseClashStats ==
    << [ genre_name |-> Action, average_rating |-> 800,
         average_popularity |-> 400, total_votes |-> 10, movie_count |-> 1,
         top_movies |-> <<>> ],
       [ genre_name |-> Lower(Action), average_rating |-> 600,
         average_popularity |-> 250, total_votes |-> 5, movie_count |-> 1,
         top_movies |-> <<>> ] >>

InitPublish ==
    /\ pc = "upload_movies"
    /\ \/ /\ movies \in { ms \in ItemLists(MaxMovies) : ~CalculateStatsRaises(ms) }
          /\ genre_extended_stats \in {StatsFor(movies), CaseClashStats}
       \/ /\ movies \in {ManyMovies(BatchSize), ManyMovies(BatchSize + 1)}
          /\ genre_extended_stats \in {ManyStats(0), ManyStats(BatchSize + 1)}
    /\ top_count = DefaultTopCount
    /\ db \in InitialStores
    /\ i = 0
    /\ call = 1
    /\ commits = <<>>
    /\ first_db = <<>>
    /\ FetchIdle

NextPublish ==
    \/ CommitMoviesBatch
    \/ CommitMoviesBatchRaises
    \/ MoviesUploaded
    \/ CommitGenresBatch
    \/ CommitGenresBatchRaises
    \/ UploadAgain

SpecPublish == InitPublish /\ [][NextPublish]_vars

\* --------------------------------------------- claims on upload_to_firebase
MovieKey(movie) == Str(movie.id)
GenreKey(s) == Lower(s.genre_name)

\* The collection holds each record whole under its key (the last one, where
\* two share a key) and nothing else but documents it held before the upload.
HoldsExactly(coll, records, keyOf(_), before) ==
    LET keyAt == [k \in DOMAIN records |-> keyOf(records[k])]
        lastUnder(key) ==
            CHOOSE k \in DOMAIN records :
                /\ keyAt[k] = key
                /\ \A l \in (k + 1)..Len(records) : keyAt[l] # key
    IN  /\ Range(keyAt) \subseteq DOMAIN coll
        /\ \A key \in DOMAIN coll :
              IF key \in Range(keyAt)
              THEN coll[key] = records[lastUnder(key)]
              ELSE \E store \in InitialStores :
                      /\ key \in DOMAIN store[before]
                      /\ coll[key] = store[before][key]

\* C7: a completed upload leaves every movie under str(id) and every genre
\* record under its lower-cased name, each document being exactly the record
\* (nothing of an older document is kept, no other document is added), and a
\* second upload of the same input leaves the store as the first one left it.
C7_UploadIsIdempotent ==
    /\ pc = "uploaded" =>
         /\ HoldsExactly(db.movies, movies, MovieKey, "movies")
         /\ HoldsExactly(db.genres, genre_extended_stats, GenreKey, "genres")
    /\ (pc = "uploaded" /\ call = 2) => db = first_db

\* A second upload has completed over a store that held older documents under
\* keys the upload writes, with two genre records sharing a lower-cased name.
C7_Witness ==
    /\ pc = "uploaded" /\ call = 2
    /\ Len(commits) = 4
    /\ Len(movies) >= 2
    /\ Str(999) \in DOMAIN db.movies
    /\ db.movies[Str(1)] = movies[1]
    /\ genre_extended_stats = CaseClashStats
    /\ db.genres[Lower(Action)] = CaseClashStats[2]

\* C8 as stated: every committed batch, of movies or of genre records, holds
\* at most 500 writes; within a call the movie batches are committed before
\* the genres batch; and when a commit raises, the store holds what the
\* batches committed before it wrote.
C8_EveryBatchWithinLimit ==
    /\ \A k \in DOMAIN commits : commits[k].writes <= BatchSize
    /\ \A k, l \in DOMAIN commits :
          (k < l /\ commits[k].call = commits[l].call
             /\ commits[k].collection = "genres") =>
                commits[l].collection # "movies"
    /\ (pc = "raised" /\ call = 1 /\ commits # <<>>) =>
          \A k \in 1..Min(Len(movies), BatchSize) :
              db.movies[Str(movies[k].id)] = movies[k]

====
